---- MODULE Spec2Model ----
(***************************************************************************)
(* Model of the Tavily search bot: the chat endpoint (main.py), the two    *)
(* in-process memories (tools.py) and the LangGraph agent (agent.py).      *)
(*                                                                         *)
(* Text is a sequence of symbols: a symbol is a whitespace character or a  *)
(* word.  Python's None in a text slot is the one-symbol text None.        *)
(* A Python list object is a cell of a heap (turn_lists, json_lists); the  *)
(* dictionaries of the memories map a key to the index of its list, 0 when *)
(* the key is absent.  A worker thread of the server runs one chat request *)
(* at a time; threads interleave between any two steps.                    *)
(***************************************************************************)
EXTENDS Integers, Sequences, FiniteSets, TLC

\* ------------------------------------------------------------------ bounds
MaxRequests == 2
MaxCap == 2
MaxCalls == 3

\* ------------------------------------------------------- program constants
MAX_TURNS_CONTEXT == 12
HISTORY_TAIL == 10
MAX_SOURCES == 6
SNIPPET_WIDTH == 1200
MAX_RESULTS == 6

\* ------------------------------------------------------------------- text
Whitespace == {" ", "\n"}

None == <<"None">>

Truthy(x) == x # None /\ x # <<>>

\* Python `x or ""` on a text slot
OrEmpty(x) == IF Truthy(x) THEN x ELSE <<>>

\* In the recursive operators below the argument is first bound to its value
\* (s \in {text}), so that it is computed once and not at every use.
RECURSIVE lstrip(_)
lstrip(text) ==
    CHOOSE r \in { IF s = <<>> THEN <<>>
                   ELSE IF Head(s) \in Whitespace THEN lstrip(Tail(s)) ELSE s
                   : s \in {text} } : TRUE

RECURSIVE rstrip(_)
rstrip(text) ==
    CHOOSE r \in { IF s = <<>> THEN <<>>
                   ELSE IF s[Len(s)] \in Whitespace
                        THEN rstrip(SubSeq(s, 1, Len(s) - 1)) ELSE s
                   : s \in {text} } : TRUE

\* str.strip()
strip(s) == rstrip(lstrip(s))

\* re.sub(r"\s+", " ", s)
RECURSIVE collapse_ws(_)
collapse_ws(text) ==
    CHOOSE r \in { IF s = <<>> THEN <<>>
                   ELSE IF Head(s) \in Whitespace
                        THEN <<" ">> \o collapse_ws(lstrip(s))
                        ELSE <<Head(s)>> \o collapse_ws(Tail(s))
                   : s \in {text} } : TRUE

_strip_ws(s) == strip(collapse_ws(OrEmpty(s)))

\* Python seq[-n:]  (note -0 = 0: the whole sequence)
TailSlice(s, n) ==
    LET start == IF n > 0 THEN (IF Len(s) - n > 0 THEN Len(s) - n ELSE 0)
                 ELSE (IF -n < Len(s) THEN -n ELSE Len(s))
    IN SubSeq(s, start + 1, Len(s))

\* Python seq[:n] for n >= 0
HeadSlice(s, n) == SubSeq(s, 1, IF n < Len(s) THEN n ELSE Len(s))

RECURSIVE JoinLines(_)
JoinLines(lines) ==
    IF lines = <<>> THEN <<>>
    ELSE IF Len(lines) = 1 THEN lines[1]
    ELSE lines[1] \o <<"\n">> \o JoinLines(Tail(lines))

\* --------------------------------------------------------- agent.py: data
\* a Python object in a slot that holds a URL: its type and its text
PyStr(t) == [pytype |-> "str", str |-> t]
PyUrl(t) == [pytype |-> "Url", str |-> t]
PyNone == [pytype |-> "NoneType", str |-> <<>>]

UrlWords == {"https://a.example", "https://b.example", "https://img.example/1.png"}

\* pydantic's AnyUrl validation of a text: an absolute URL, surrounding
\* blanks ignored
IsValidUrl(t) == t # None /\ Len(strip(t)) = 1 /\ strip(t)[1] \in UrlWords

\* mutant: validation failures are not noticed
CitationValidates_everything(s) == TRUE

\* class Citation(BaseModel): whether Citation(title, url, snippet, image_url)
\* validates; image_url arrives as `s.get("image_url") or None`
CitationValidates(s) ==
    /\ IsValidUrl(s.url)
    /\ (Truthy(s.image_url) => IsValidUrl(s.image_url))

\* Citation(...) as model_dump() returns it: URLs stay Url objects
Citation(s) ==
    [ title |-> IF Truthy(s.title) THEN s.title ELSE None,
      url |-> PyUrl(strip(s.url)),
      snippet |-> IF Truthy(s.snippet) THEN s.snippet ELSE None,
      score |-> None,
      image_url |-> IF Truthy(s.image_url) THEN PyUrl(strip(s.image_url)) ELSE PyNone ]

NoEnvelope == [results |-> <<>>, answer |-> None]
EmptyEnvelope == [results |-> <<>>, answer |-> <<>>]

NoOutput ==
    [ query |-> None, final_answer |-> None, citations |-> <<>>,
      meta |-> [engine |-> "none"] ]

\* AgentState with every optional key absent
EmptyState ==
    [ llm_prompt |-> None, search_query |-> None, latest_user_input |-> None,
      last_structured_output |-> <<>>, raw_llm_answer |-> None, needs_web |-> FALSE,
      search_results |-> NoEnvelope, used_sources |-> <<>>, web_summary |-> None,
      structured_output |-> NoOutput ]

\* ------------------------------------------------ agent.py: normalization
Digits == {"123"}
MetricWords == {"views", "likes", "posted"}
HeadingMarks == {"#", "##", "###"}
LayoutWords == {"description", "video", "channel"}

\* re.sub(r"\b\d+\s*(subscribers?|likes?|views?|posted)\b", "", snippet)
RECURSIVE strip_metrics(_)
strip_metrics(text) ==
    CHOOSE r \in { IF s = <<>> THEN <<>>
                   ELSE IF Head(s) \in Digits
                           /\ rest # <<>>
                           /\ Head(rest) \in MetricWords
                        THEN strip_metrics(Tail(rest))
                        ELSE <<Head(s)>> \o strip_metrics(Tail(s))
                   : s \in {text}, rest \in {IF text = <<>> THEN <<>> ELSE lstrip(Tail(text))} }
           : TRUE

\* re.sub(r"(###|##|#)\s*\b(description|video|channel)\b.*?(?=\s|$)", "", snippet)
RECURSIVE strip_headings(_)
strip_headings(text) ==
    CHOOSE r \in { IF s = <<>> THEN <<>>
                   ELSE IF Head(s) \in HeadingMarks
                           /\ rest # <<>>
                           /\ Head(rest) \in LayoutWords
                        THEN strip_headings(Tail(rest))
                        ELSE <<Head(s)>> \o strip_headings(Tail(s))
                   : s \in {text}, rest \in {IF text = <<>> THEN <<>> ELSE lstrip(Tail(text))} }
           : TRUE

\* number of characters of a symbol: one, except for the words that stand for
\* runs of 499, 500, 700 and 1300 non-blank characters
CharLen(sym) ==
    CASE sym = "<499 chars>" -> 499
      [] sym = "<500 chars>" -> 500
      [] sym = "<700 chars>" -> 700
      [] sym = "<1300 chars>" -> 1300
      [] OTHER -> 1

\* len(text)
RECURSIVE TextLen(_)
TextLen(text) ==
    CHOOSE n \in { IF s = <<>> THEN 0 ELSE CharLen(Head(s)) + TextLen(Tail(s))
                   : s \in {text} } : TRUE

\* mutant: the snippet is never truncated
shorten_keeps_all(text, width, placeholder) == strip(collapse_ws(text))

\* textwrap.shorten(text, width, placeholder): the text when it fits, else its
\* longest prefix that ends with a word and fits with the placeholder
shorten(text, width, placeholder) ==
    CHOOSE r \in
        { LET fits == { n \in 1..Len(t) :
                          /\ t[n] \notin Whitespace
                          /\ TextLen(SubSeq(t, 1, n)) + TextLen(placeholder) <= width }
              best == CHOOSE n \in fits : \A m \in fits : m <= n
          IN IF TextLen(t) <= width THEN t
             ELSE IF fits = {} THEN placeholder
             ELSE SubSeq(t, 1, best) \o placeholder
          : t \in {strip(collapse_ws(text))} } : TRUE

FirstOf(a, b, c) ==
    IF Truthy(a) THEN a ELSE IF Truthy(b) THEN b ELSE IF Truthy(c) THEN c ELSE <<>>

\* the cleaned snippet of agent.py:58-68
clean_snippet(r) ==
    CHOOSE out \in
        { shorten(d, SNIPPET_WIDTH, <<"...">>) :
            d \in { _strip_ws(c) :
              c \in { strip_headings(b) :
                b \in { strip_metrics(a) :
                  a \in { strip(FirstOf(r.raw_content, r.content, r.snippet)) } } } } }
        : TRUE

\* the passage appended at agent.py:70-77 for raw result r with trimmed url
Passage(r, url) ==
    [ url |-> url,
      title |-> IF Truthy(r.title) THEN r.title ELSE url,
      snippet |-> clean_snippet(r),
      image_url |-> IF Truthy(r.thumbnail) THEN r.thumbnail ELSE r.image_url ]

\* a truthy value that is not a str (an int, a list): it has no .strip()
NotAString == <<"<int 42>">>

IsStr(v) == v # NotAString

\* mutant: the set of seen URLs is not consulted
is_skipped_blank_only(url, seen) == url = <<>>

\* `if not url or url in seen: continue` (agent.py:54-55)
is_skipped(url, seen) == url = <<>> \/ url \in seen

\* mutant: the loop stops one passage late
cap_reached_late(n, max_sources) == n > max_sources

\* `if len(out) >= max_sources: break` with n = len(out) (agent.py:78-79)
cap_reached(n, max_sources) == n >= max_sources

\* the loop of agent.py:52-79 from `results` on with `seen` and `out` so far:
\* `raised` when .strip() is called on a value that is not a str (agent.py:53,
\* 58-63), else `out` as returned at agent.py:80
RECURSIVE NormalizeLoop(_, _, _, _)
NormalizeLoop(results, max_sources, seen, out) ==
    CHOOSE ret \in
        { IF rs = <<>> THEN [raised |-> FALSE, out |-> o]
          ELSE LET r == Head(rs)
               IN IF Truthy(r.url) /\ ~IsStr(r.url) THEN [raised |-> TRUE, out |-> o]
                  ELSE IF is_skipped(url, seen)
                  THEN NormalizeLoop(Tail(rs), max_sources, seen, o)
                  ELSE IF ~IsStr(FirstOf(r.raw_content, r.content, r.snippet))
                  THEN [raised |-> TRUE, out |-> o]
                  ELSE IF cap_reached(Len(o) + 1, max_sources)
                  THEN [raised |-> FALSE, out |-> Append(o, Passage(r, url))]
                  ELSE NormalizeLoop(Tail(rs), max_sources, seen \cup {url},
                                     Append(o, Passage(r, url)))
          : rs \in {results}, o \in {out},
            url \in {IF results = <<>> THEN <<>> ELSE strip(OrEmpty(Head(results).url))} }
        : TRUE

\* the list _normalize_sources returns
_normalize_sources(results, max_sources) ==
    NormalizeLoop(results, max_sources, {}, <<>>).out

\* whether the call raises AttributeError instead of returning
_normalize_sources_raises(results, max_sources) ==
    NormalizeLoop(results, max_sources, {}, <<>>).raised

\* ------------------------------------------------------ agent.py: stages
SENTINEL == <<"CALL_TAVILY">>

\* tools.py LLMTool.chat: the model's message content, stripped
LLMTool_chat(content) == strip(content)

\* mutant: the sentinel is looked for anywhere in the answer
llm_router_substring(state, answer) ==
    LET needs_web == \E i \in 1..Len(answer) : answer[i] = SENTINEL[1]
    IN [state EXCEPT !.raw_llm_answer = IF needs_web THEN <<>> ELSE answer,
                     !.needs_web = needs_web]

\* llm_router with `answer` the value llm.chat returned
llm_router(state, answer) ==
    LET needs_web == strip(answer) = SENTINEL
    IN [state EXCEPT !.raw_llm_answer = IF needs_web THEN <<>> ELSE answer,
                     !.needs_web = needs_web]

\* mutant: the edge ignores needs_web
route_decision_always_search(state) == "search_web"

route_decision(state) == IF state.needs_web THEN "search_web" ELSE "finalize"

\* mutant: the edge from summarize_with_llm goes to END, past finalize
next_node_skips_finalize(name, state) ==
    CASE name = "llm_router" -> route_decision(state)
      [] name = "search_web" -> "prepare_sources"
      [] name = "prepare_sources" -> "summarize_with_llm"
      [] name = "summarize_with_llm" -> "END"
      [] name = "finalize" -> "END"

\* the edges create_agent adds (agent.py:243-255)
next_node(name, state) ==
    CASE name = "llm_router" -> route_decision(state)
      [] name = "search_web" -> "prepare_sources"
      [] name = "prepare_sources" -> "summarize_with_llm"
      [] name = "summarize_with_llm" -> "finalize"
      [] name = "finalize" -> "END"

ENTRY_POINT == "llm_router"

\* mutant: the graph keeps the channels the previous invocation wrote
graph_input_keeps_channels(previous, given) ==
    [given EXCEPT !.search_results = previous.search_results,
                  !.used_sources = previous.used_sources,
                  !.web_summary = previous.web_summary]

\* the state an invocation starts from: the graph is compiled without a
\* checkpointer (agent.py:257), so it is the state handed to agent.invoke and
\* nothing of the state `previous` the graph ended its last invocation with
graph_input(previous, given) == given

\* the query search_web sends
search_query_of(state) ==
    _strip_ws(IF Truthy(state.search_query) THEN state.search_query
              ELSE state.latest_user_input)

\* the keyword arguments of tools.search at agent.py:120-125
search_args(state) ==
    [ query |-> search_query_of(state), max_results |-> MAX_RESULTS,
      include_answer |-> TRUE, include_raw_content |-> TRUE ]

\* mutant: the search is made and stored whatever the query
search_web_no_precondition(state, sr) == [state EXCEPT !.search_results = sr]

\* search_web with `sr` the envelope tools.search returned (unused when the
\* query is empty)
search_web(state, sr) ==
    [state EXCEPT !.search_results =
        IF search_query_of(state) = <<>> THEN EmptyEnvelope ELSE sr]

\* mutant: every raw result becomes a passage, duplicates included
prepare_sources_keeps_all(state) ==
    [state EXCEPT !.used_sources =
        [i \in 1..Len(state.search_results.results) |->
            Passage(state.search_results.results[i],
                    strip(OrEmpty(state.search_results.results[i].url)))]]

prepare_sources(state) ==
    [state EXCEPT !.used_sources =
        _normalize_sources(state.search_results.results, MAX_SOURCES)]

\* summarize_with_llm with `summary` the value llm.chat returned
summarize_with_llm(state, summary) == [state EXCEPT !.web_summary = summary]

\* mutant: the direct answer is preferred to the search-grounded summary
final_text_direct_first(state) ==
    IF Truthy(state.raw_llm_answer) THEN state.raw_llm_answer
    ELSE IF Truthy(state.web_summary) THEN state.web_summary
    ELSE <<"I couldn't find detailed information for that request.">>

final_text(state) ==
    IF Truthy(state.web_summary) THEN state.web_summary
    ELSE IF Truthy(state.raw_llm_answer) THEN state.raw_llm_answer
    ELSE <<"I couldn't find detailed information for that request.">>

\* mutant: the engine is reported as search-grounded on both branches
final_engine_always_tavily(state) == "llm+tavily"

final_engine(state) == IF Truthy(state.web_summary) THEN "llm+tavily" ELSE "llm_only"

\* the loop of agent.py:203-215
RECURSIVE build_citations(_)
build_citations(sources) ==
    CHOOSE r \in
        { IF s = <<>> THEN <<>>
          ELSE IF CitationValidates(Head(s))
               THEN <<Citation(Head(s))>> \o build_citations(Tail(s))
               ELSE build_citations(Tail(s))
          : s \in {sources} } : TRUE

finalize_chat(state) ==
    LET citations == build_citations(state.used_sources)
    IN [state EXCEPT !.structured_output =
          [ query |-> OrEmpty(state.latest_user_input),
            final_answer |-> final_text(state),
            citations |-> citations,
            meta |-> [engine |-> final_engine(state), num_sources |-> Len(citations)] ]]

\* ------------------------------------------------------- main.py: helpers
\* one line of build_chat_template
TemplateLine(m) ==
    <<IF m.role = "user" THEN "User:" ELSE "Assistant:", " ">> \o m.content

build_chat_template(history, latest_query, max_turns) ==
    LET pruned == IF Len(history) > max_turns THEN TailSlice(history, max_turns)
                  ELSE history
    IN JoinLines([i \in 1..Len(pruned) |-> TemplateLine(pruned[i])]
                 \o << <<"User:", " ">> \o latest_query >>)

\* whether json.dumps accepts a structured answer: plain types only
JsonSafe(answer) ==
    \A i \in 1..Len(answer.citations) :
        /\ answer.citations[i].url.pytype = "str"
        /\ answer.citations[i].image_url.pytype \in {"str", "NoneType"}

\* mutant: the whole history is encoded, not its last 10 answers
get_json_history_str_whole(hist) ==
    IF hist = <<>> THEN <<>>
    ELSE IF \A i \in 1..Len(hist) : JsonSafe(hist[i]) THEN hist
    ELSE <<>>

\* get_json_history_str given hist = json_mem.get_history(...): the text
\* json.dumps(hist[-10:]) is modelled by the list it encodes, "" by <<>>
get_json_history_str(hist) ==
    IF hist = <<>> THEN <<>>
    ELSE IF \A i \in 1..Len(TailSlice(hist, HISTORY_TAIL)) :
                JsonSafe(TailSlice(hist, HISTORY_TAIL)[i])
         THEN TailSlice(hist, HISTORY_TAIL)
         ELSE <<>>

\* state_in of chat (main.py:90-97)
state_in(message, chat_template, json_history) ==
    [EmptyState EXCEPT !.llm_prompt = chat_template,
                       !.search_query = message,
                       !.latest_user_input = message,
                       !.last_structured_output = json_history]

\* `except Exception`: the classes of exception the clause catches
ExceptionClasses == {"ConnectionError", "AttributeError"}

\* mutant: the clause names one class of exception only
Caught_connection_only(e) == e = "ConnectionError"

Caught(e) == e \in ExceptionClasses

\* the degraded answer of main.py:104-109
error_answer(message, e) ==
    [ query |-> message,
      final_answer |-> <<"Sorry, something went wrong while processing that request.">>,
      citations |-> <<>>,
      meta |-> [engine |-> "error", error |-> <<e>>] ]

\* ------------------------------------------------------------------ state
Threads == {"w1", "w2"}
Keys == {<<"u1", "s1">>, <<"u1", "s2">>}

VARIABLES
    env,          \* the scenario: worker threads in use, what the services may return
    max_turns,    \* TurnMemory.max_turns
    max_items,    \* JsonMemory.max_items
    turn_store,   \* TurnMemory.store: key -> index of its list in turn_lists, 0 = absent
    turn_lists,   \* the list objects TurnMemory created
    json_store,   \* JsonMemory.store
    json_lists,
    pc,           \* per thread: the line of chat() it is at
    mop,          \* per thread: the step of the memory method it is in
    req,          \* per thread: the ChatRequest
    loc,          \* per thread: locals of the memory method (key, item, list, slice)
    chatloc,      \* per thread: locals of chat()
    ast,          \* per thread: the AgentState of the invocation
    node,         \* per thread: the graph node to run next
    trace,        \* per thread: the nodes run in this invocation, in order
    calls,        \* per thread: external calls made in this invocation, and what
                  \* the model answered the router
    resp,         \* per thread: what the endpoint handed to the HTTP layer
    started,      \* chat requests and direct memory calls begun
    ops,          \* history: the memory appends begun: thread, serial, memory, key
    runs          \* history: the invocations of the graph that returned: input,
                  \* service responses, structured answer

memVars == <<max_turns, max_items, turn_store, turn_lists, json_store, json_lists>>
agentVars == <<ast, node, trace, calls>>
vars == <<env, max_turns, max_items, turn_store, turn_lists, json_store, json_lists,
          pc, mop, req, loc, chatloc, ast, node, trace, calls, resp, started, ops, runs>>

NoTag == [w |-> "", n |-> 0]
NoLoc == [key |-> <<"", "">>, item |-> <<>>, ref |-> 0, slice |-> <<>>, op |-> NoTag]
NoChatLoc ==
    [ recent |-> <<>>, chat_template |-> <<>>, json_history |-> <<>>,
      structured |-> NoOutput, exc |-> "" ]
NoReq == [key |-> <<"", "">>, message |-> <<>>]
NoResp == [kind |-> "none", body |-> NoOutput]
NoSearchArgs ==
    [query |-> None, max_results |-> 0, include_answer |-> FALSE, include_raw_content |-> FALSE]
NoCalls ==
    [ llm |-> 0, search |-> 0, router_out |-> None,
      search_args |-> NoSearchArgs, search_out |-> NoEnvelope, summary_out |-> None ]

\* the items of a stored list, without the history tag
Items(entries) == [i \in 1..Len(entries) |-> entries[i].item]
OpsOf(entries) == [i \in 1..Len(entries) |-> entries[i].op]

\* mutant: the session is not part of the key
memory_key_user_only(user_id, session_id) == <<user_id, "s1">>

\* key = (user_id, session_id) (tools.py:80, 88, 106, 109)
memory_key(user_id, session_id) == <<user_id, session_id>>

\* the list a memory holds for a key ([] when the key is absent)
TurnsOf(k) == IF turn_store[k] = 0 THEN <<>> ELSE turn_lists[turn_store[k]]
AnswersOf(k) == IF json_store[k] = 0 THEN <<>> ELSE json_lists[json_store[k]]

\* TurnMemory.load_recent
\* mutant: the oldest n turns instead of the newest
load_recent_oldest(k, n) == HeadSlice(Items(TurnsOf(k)), n)

load_recent(k, n) == TailSlice(Items(TurnsOf(memory_key(k[1], k[2]))), n)

\* JsonMemory.get_history
get_history(k) == Items(AnswersOf(memory_key(k[1], k[2])))

Turn(role, content) == [role |-> role, content |-> content]

\* ------------------------------------------------ tools.py: memory methods
\* a thread enters save_turn / append: the arguments are bound, the call is logged
NextTag(t) == [w |-> t, n |-> Cardinality({o \in ops : o.w = t}) + 1]

EnterMemory(t, mem, k, item) ==
    /\ loc' = [loc EXCEPT ![t] = [key |-> memory_key(k[1], k[2]), item |-> item, ref |-> 0,
                                  slice |-> <<>>, op |-> NextTag(t)]]
    /\ ops' = ops \cup {[w |-> t, n |-> NextTag(t).n, mem |-> mem, key |-> k,
                          item |-> item]}
    /\ mop' = [mop EXCEPT ![t] = "setdefault"]

\* mutant: chat returns right after json_mem.append
AfterMemory_no_assistant_turn(line) ==
    CASE line = "save_user" -> "load"
      [] line = "append_json" -> "return"
      [] line = "save_assistant" -> "return"
      [] OTHER -> "idle"

\* the line of the caller a memory method returns to
AfterMemory(line) ==
    CASE line = "save_user" -> "load"
      [] line = "append_json" -> "enter_save_assistant"
      [] line = "save_assistant" -> "return"
      [] OTHER -> "idle"

InTurnMemory(t) == pc[t] \in {"save_user", "save_assistant", "mem_save_turn"}
InJsonMemory(t) == pc[t] \in {"append_json", "mem_append"}

LeaveMemory(t) ==
    /\ mop' = [mop EXCEPT ![t] = "none"]
    /\ pc' = [pc EXCEPT ![t] = AfterMemory(pc[t])]

\* a caller other than chat() calls save_turn
MemSaveTurn(t) ==
    /\ t \in env.workers /\ pc[t] = "idle" /\ started < MaxCalls
    /\ \E k \in env.keys, role \in {"user", "assistant"}, content \in env.messages :
          EnterMemory(t, "turn", k, Turn(role, content))
    /\ pc' = [pc EXCEPT ![t] = "mem_save_turn"]
    /\ started' = started + 1
    /\ UNCHANGED <<runs, env, memVars, req, chatloc, ast, node, trace, calls, resp>>

\* a caller other than chat() calls JsonMemory.append
MemAppend(t) ==
    /\ t \in env.workers /\ pc[t] = "idle" /\ started < MaxCalls
    /\ \E k \in env.keys, m \in env.messages, e \in env.errors :
          EnterMemory(t, "json", k, error_answer(m, e))
    /\ pc' = [pc EXCEPT ![t] = "mem_append"]
    /\ started' = started + 1
    /\ UNCHANGED <<runs, env, memVars, req, chatloc, ast, node, trace, calls, resp>>

\* convo = self.store.setdefault(key, [])
TM_setdefault(t) ==
    /\ InTurnMemory(t) /\ mop[t] = "setdefault"
    /\ IF turn_store[loc[t].key] = 0
       THEN /\ turn_lists' = Append(turn_lists, <<>>)
            /\ turn_store' = [turn_store EXCEPT ![loc[t].key] = Len(turn_lists) + 1]
            /\ loc' = [loc EXCEPT ![t].ref = Len(turn_lists) + 1]
       ELSE /\ loc' = [loc EXCEPT ![t].ref = turn_store[loc[t].key]]
            /\ UNCHANGED <<runs, turn_lists, turn_store>>
    /\ mop' = [mop EXCEPT ![t] = "append"]
    /\ UNCHANGED <<runs, env, max_turns, max_items, json_store, json_lists, pc, req, chatloc,
                   ast, node, trace, calls, resp, started, ops>>

\* convo.append({"role": role, "content": content})
TM_append(t) ==
    /\ InTurnMemory(t) /\ mop[t] = "append"
    /\ turn_lists' = [turn_lists EXCEPT ![loc[t].ref] =
                        Append(@, [item |-> loc[t].item, op |-> loc[t].op])]
    /\ mop' = [mop EXCEPT ![t] = "check"]
    /\ UNCHANGED <<runs, env, max_turns, max_items, turn_store, json_store, json_lists, pc, req,
                   loc, chatloc, ast, node, trace, calls, resp, started, ops>>

\* if len(convo) > self.max_turns:
TM_check(t) ==
    /\ InTurnMemory(t) /\ mop[t] = "check"
    /\ IF Len(turn_lists[loc[t].ref]) > max_turns
       THEN mop' = [mop EXCEPT ![t] = "slice"] /\ pc' = pc
       ELSE LeaveMemory(t)
    /\ UNCHANGED <<runs, env, memVars, req, loc, chatloc, ast, node, trace, calls, resp,
                   started, ops>>

\* convo[-self.max_turns :]
TM_slice(t) ==
    /\ InTurnMemory(t) /\ mop[t] = "slice"
    /\ loc' = [loc EXCEPT ![t].slice = TailSlice(turn_lists[loc[t].ref], max_turns)]
    /\ mop' = [mop EXCEPT ![t] = "store"]
    /\ UNCHANGED <<runs, env, memVars, pc, req, chatloc, ast, node, trace, calls, resp,
                   started, ops>>

\* self.store[key] = <the slice>
TM_store(t) ==
    /\ InTurnMemory(t) /\ mop[t] = "store"
    /\ turn_lists' = Append(turn_lists, loc[t].slice)
    /\ turn_store' = [turn_store EXCEPT ![loc[t].key] = Len(turn_lists) + 1]
    /\ LeaveMemory(t)
    /\ UNCHANGED <<runs, env, max_turns, max_items, json_store, json_lists, req, loc, chatloc,
                   ast, node, trace, calls, resp, started, ops>>

\* lst = self.store.setdefault(key, [])
JM_setdefault(t) ==
    /\ InJsonMemory(t) /\ mop[t] = "setdefault"
    /\ IF json_store[loc[t].key] = 0
       THEN /\ json_lists' = Append(json_lists, <<>>)
            /\ json_store' = [json_store EXCEPT ![loc[t].key] = Len(json_lists) + 1]
            /\ loc' = [loc EXCEPT ![t].ref = Len(json_lists) + 1]
       ELSE /\ loc' = [loc EXCEPT ![t].ref = json_store[loc[t].key]]
            /\ UNCHANGED <<runs, json_lists, json_store>>
    /\ mop' = [mop EXCEPT ![t] = "append"]
    /\ UNCHANGED <<runs, env, max_turns, max_items, turn_store, turn_lists, pc, req, chatloc,
                   ast, node, trace, calls, resp, started, ops>>

\* lst.append(item)
JM_append(t) ==
    /\ InJsonMemory(t) /\ mop[t] = "append"
    /\ json_lists' = [json_lists EXCEPT ![loc[t].ref] =
                        Append(@, [item |-> loc[t].item, op |-> loc[t].op])]
    /\ mop' = [mop EXCEPT ![t] = "check"]
    /\ UNCHANGED <<runs, env, max_turns, max_items, turn_store, turn_lists, json_store, pc, req,
                   loc, chatloc, ast, node, trace, calls, resp, started, ops>>

\* if len(lst) > self.max_items:
JM_check(t) ==
    /\ InJsonMemory(t) /\ mop[t] = "check"
    /\ IF Len(json_lists[loc[t].ref]) > max_items
       THEN mop' = [mop EXCEPT ![t] = "slice"] /\ pc' = pc
       ELSE LeaveMemory(t)
    /\ UNCHANGED <<runs, env, memVars, req, loc, chatloc, ast, node, trace, calls, resp,
                   started, ops>>

\* lst[-self.max_items :]
JM_slice(t) ==
    /\ InJsonMemory(t) /\ mop[t] = "slice"
    /\ loc' = [loc EXCEPT ![t].slice = TailSlice(json_lists[loc[t].ref], max_items)]
    /\ mop' = [mop EXCEPT ![t] = "store"]
    /\ UNCHANGED <<runs, env, memVars, pc, req, chatloc, ast, node, trace, calls, resp,
                   started, ops>>

\* self.store[key] = <the slice>
JM_store(t) ==
    /\ InJsonMemory(t) /\ mop[t] = "store"
    /\ json_lists' = Append(json_lists, loc[t].slice)
    /\ json_store' = [json_store EXCEPT ![loc[t].key] = Len(json_lists) + 1]
    /\ LeaveMemory(t)
    /\ UNCHANGED <<runs, env, max_turns, max_items, turn_store, turn_lists, req, loc, chatloc,
                   ast, node, trace, calls, resp, started, ops>>

\* ----------------------------------------------------------- main.py: chat
\* a request arrives on an idle worker; chat() calls save_turn (main.py:84)
StartChat(t) ==
    /\ t \in env.workers /\ pc[t] = "idle" /\ started < MaxRequests
    /\ \E k \in env.keys, m \in env.messages :
          /\ req' = [req EXCEPT ![t] = [key |-> k, message |-> m]]
          /\ EnterMemory(t, "turn", k, Turn("user", m))
    /\ pc' = [pc EXCEPT ![t] = "save_user"]
    /\ started' = started + 1
    /\ chatloc' = [chatloc EXCEPT ![t] = NoChatLoc]
    /\ ast' = [ast EXCEPT ![t] = EmptyState]
    /\ node' = [node EXCEPT ![t] = "-"]
    /\ trace' = [trace EXCEPT ![t] = <<>>]
    /\ calls' = [calls EXCEPT ![t] = NoCalls]
    /\ resp' = [resp EXCEPT ![t] = NoResp]
    /\ UNCHANGED <<runs, env, memVars>>

\* main.py:85-86
ChatLoadRecent(t) ==
    /\ pc[t] = "load"
    /\ LET recent == load_recent(req[t].key, MAX_TURNS_CONTEXT)
       IN chatloc' = [chatloc EXCEPT ![t].recent = recent,
                         ![t].chat_template =
                             build_chat_template(recent, req[t].message, MAX_TURNS_CONTEXT)]
    /\ pc' = [pc EXCEPT ![t] = "history"]
    /\ UNCHANGED <<runs, env, memVars, mop, req, loc, agentVars, resp, started, ops>>

\* main.py:88-100: the JSON history, state_in, and the entry of the graph
ChatInvoke(t) ==
    /\ pc[t] = "history"
    /\ LET json_history == get_json_history_str(get_history(req[t].key))
       IN /\ chatloc' = [chatloc EXCEPT ![t].json_history = json_history]
          /\ ast' = [ast EXCEPT ![t] =
                        graph_input(ast[t], state_in(req[t].message,
                                                     chatloc[t].chat_template, json_history))]
    /\ pc' = [pc EXCEPT ![t] = "agent"]
    /\ node' = [node EXCEPT ![t] = ENTRY_POINT]
    /\ UNCHANGED <<runs, env, memVars, mop, req, loc, trace, calls, resp, started, ops>>

\* ---------------------------------------------- agent.py: the graph's nodes
Ran(t, name) == trace' = [trace EXCEPT ![t] = Append(@, name)]

\* a node raises: the exception leaves agent.invoke
Raise(t, e) ==
    /\ chatloc' = [chatloc EXCEPT ![t].exc = e]
    /\ pc' = [pc EXCEPT ![t] = "except"]
    /\ node' = [node EXCEPT ![t] = "-"]

\* node llm_router, then the conditional edge route_decision
LlmRouter(t) ==
    /\ pc[t] = "agent" /\ node[t] = "llm_router"
    /\ \E content \in env.router :
          LET s == llm_router(ast[t], LLMTool_chat(content))
          IN /\ ast' = [ast EXCEPT ![t] = s]
             /\ node' = [node EXCEPT ![t] = next_node("llm_router", s)]
             /\ calls' = [calls EXCEPT ![t].llm = @ + 1, ![t].router_out = content]
    /\ Ran(t, "llm_router")
    /\ UNCHANGED <<runs, env, memVars, pc, mop, req, loc, chatloc, resp, started, ops>>

\* llm.chat raises inside llm_router
LlmRouterRaises(t) ==
    /\ pc[t] = "agent" /\ node[t] = "llm_router"
    /\ \E e \in env.errors : Raise(t, e)
    /\ Ran(t, "llm_router")
    /\ calls' = [calls EXCEPT ![t].llm = @ + 1]
    /\ UNCHANGED <<runs, env, memVars, mop, req, loc, ast, resp, started, ops>>

\* node search_web, edge to prepare_sources
SearchWeb(t) ==
    /\ pc[t] = "agent" /\ node[t] = "search_web"
    /\ \E sr \in env.envelopes :
          LET s == search_web(ast[t], sr)
          IN /\ ast' = [ast EXCEPT ![t] = s]
             /\ node' = [node EXCEPT ![t] = next_node("search_web", s)]
             /\ calls' = IF search_query_of(ast[t]) = <<>> THEN calls
                          ELSE [calls EXCEPT ![t].search = @ + 1,
                                             ![t].search_args = search_args(ast[t]),
                                             ![t].search_out = sr]
    /\ Ran(t, "search_web")
    /\ UNCHANGED <<runs, env, memVars, pc, mop, req, loc, chatloc, resp, started, ops>>

\* tools.search raises inside search_web
SearchWebRaises(t) ==
    /\ pc[t] = "agent" /\ node[t] = "search_web"
    /\ search_query_of(ast[t]) # <<>>
    /\ \E e \in env.errors : Raise(t, e)
    /\ Ran(t, "search_web")
    /\ calls' = [calls EXCEPT ![t].search = @ + 1, ![t].search_args = search_args(ast[t])]
    /\ UNCHANGED <<runs, env, memVars, mop, req, loc, ast, resp, started, ops>>

\* node prepare_sources, edge to summarize_with_llm
PrepareSources(t) ==
    /\ pc[t] = "agent" /\ node[t] = "prepare_sources"
    /\ ~_normalize_sources_raises(ast[t].search_results.results, MAX_SOURCES)
    /\ LET s == prepare_sources(ast[t])
       IN /\ ast' = [ast EXCEPT ![t] = s]
          /\ node' = [node EXCEPT ![t] = next_node("prepare_sources", s)]
    /\ Ran(t, "prepare_sources")
    /\ UNCHANGED <<runs, env, memVars, pc, mop, req, loc, chatloc, calls, resp, started, ops>>

\* _normalize_sources raises inside prepare_sources
PrepareSourcesRaises(t) ==
    /\ pc[t] = "agent" /\ node[t] = "prepare_sources"
    /\ _normalize_sources_raises(ast[t].search_results.results, MAX_SOURCES)
    /\ Raise(t, "AttributeError")
    /\ Ran(t, "prepare_sources")
    /\ UNCHANGED <<runs, env, memVars, mop, req, loc, ast, calls, resp, started, ops>>

\* node summarize_with_llm, edge to finalize
Summarize(t) ==
    /\ pc[t] = "agent" /\ node[t] = "summarize_with_llm"
    /\ \E content \in env.summaries :
          LET s == summarize_with_llm(ast[t], LLMTool_chat(content))
          IN /\ ast' = [ast EXCEPT ![t] = s]
             /\ node' = [node EXCEPT ![t] = next_node("summarize_with_llm", s)]
             /\ calls' = [calls EXCEPT ![t].llm = @ + 1, ![t].summary_out = content]
    /\ Ran(t, "summarize_with_llm")
    /\ UNCHANGED <<runs, env, memVars, pc, mop, req, loc, chatloc, resp, started, ops>>

\* llm.chat raises inside summarize_with_llm
SummarizeRaises(t) ==
    /\ pc[t] = "agent" /\ node[t] = "summarize_with_llm"
    /\ \E e \in env.errors : Raise(t, e)
    /\ Ran(t, "summarize_with_llm")
    /\ calls' = [calls EXCEPT ![t].llm = @ + 1]
    /\ UNCHANGED <<runs, env, memVars, mop, req, loc, ast, resp, started, ops>>

\* node finalize, edge to END
Finalize(t) ==
    /\ pc[t] = "agent" /\ node[t] = "finalize"
    /\ LET s == finalize_chat(ast[t])
       IN /\ ast' = [ast EXCEPT ![t] = s]
          /\ node' = [node EXCEPT ![t] = next_node("finalize", s)]
    /\ Ran(t, "finalize")
    /\ UNCHANGED <<runs, env, memVars, pc, mop, req, loc, chatloc, calls, resp, started, ops>>

\* ------------------------------------------------- main.py: chat, continued
\* main.py:101, then json_mem.append is called (main.py:112)
ChatTry(t) ==
    /\ pc[t] = "agent" /\ node[t] = "END"
    /\ chatloc' = [chatloc EXCEPT ![t].structured = ast[t].structured_output]
    /\ EnterMemory(t, "json", req[t].key, ast[t].structured_output)
    /\ pc' = [pc EXCEPT ![t] = "append_json"]
    /\ node' = [node EXCEPT ![t] = "-"]
    /\ UNCHANGED <<runs, env, memVars, req, ast, trace, calls, resp, started>>

\* main.py:102-109, then json_mem.append is called; an exception the clause
\* does not catch leaves chat()
ChatExcept(t) ==
    /\ pc[t] = "except"
    /\ IF Caught(chatloc[t].exc)
       THEN /\ chatloc' = [chatloc EXCEPT ![t].structured =
                              error_answer(req[t].message, chatloc[t].exc)]
            /\ EnterMemory(t, "json", req[t].key,
                           error_answer(req[t].message, chatloc[t].exc))
            /\ pc' = [pc EXCEPT ![t] = "append_json"]
            /\ resp' = resp
       ELSE /\ resp' = [resp EXCEPT ![t] = [kind |-> "exception", body |-> NoOutput]]
            /\ pc' = [pc EXCEPT ![t] = "idle"]
            /\ UNCHANGED <<runs, chatloc, loc, ops, mop>>
    /\ UNCHANGED <<runs, env, memVars, req, agentVars, started>>

\* main.py:115-120: turn_mem.save_turn(..., "assistant", structured.get("final_answer", ""))
ChatSaveAssistant(t) ==
    /\ pc[t] = "enter_save_assistant"
    /\ EnterMemory(t, "turn", req[t].key,
                   Turn("assistant", chatloc[t].structured.final_answer))
    /\ pc' = [pc EXCEPT ![t] = "save_assistant"]
    /\ UNCHANGED <<runs, env, memVars, req, chatloc, agentVars, resp, started>>

\* main.py:122
ChatReturn(t) ==
    /\ pc[t] = "return"
    /\ resp' = [resp EXCEPT ![t] = [kind |-> "answer", body |-> chatloc[t].structured]]
    /\ pc' = [pc EXCEPT ![t] = "idle"]
    /\ UNCHANGED <<runs, env, memVars, mop, req, loc, chatloc, agentVars, started, ops>>

\* ------------------------------------------------------------- scenarios
RawResult(url, title, content, image) ==
    [ url |-> url, title |-> title, raw_content |-> None, content |-> content,
      snippet |-> None, thumbnail |-> None, image_url |-> image ]

ResultA == RawResult(<<"https://a.example">>, <<"A">>, <<"alpha", " ", "123", " ", "views">>, None)
ResultB == RawResult(<<" ", "https://b.example">>, None, <<"beta">>, <<"https://img.example/1.png">>)
ResultA2 == RawResult(<<"https://a.example", " ">>, <<"A", "again">>, <<"other">>, None)
ResultBadUrl == RawResult(<<"not", " ", "a", " ", "url">>, <<"N">>, <<"gamma">>, None)
ResultBadImage == RawResult(<<"https://b.example">>, <<"B">>, <<"delta">>, <<"n/a">>)
ResultIntContent == RawResult(<<"https://b.example">>, <<"B">>, NotAString, None)

Envelopes ==
    { [results |-> <<ResultA, ResultB, ResultA2>>, answer |-> <<"quick">>],
      [results |-> <<ResultBadUrl, ResultBadImage, ResultA>>, answer |-> None],
      [results |-> <<ResultIntContent>>, answer |-> None],
      [results |-> <<>>, answer |-> <<>>] }

RouterContents ==
    { <<"CALL_TAVILY">>, <<" ", "CALL_TAVILY", "\n">>, <<"CALL_TAVILY", "!">>,
      <<"Paris", " ", "is", " ", "it">>, <<>> }

SummaryContents == { <<"summary", " ", "text", "\n">>, <<>> }

\* one worker, every kind of service response
FullEnv ==
    [ workers |-> {"w1"}, keys |-> {<<"u1", "s1">>}, messages |-> {<<"q">>, <<" ">>},
      router |-> RouterContents, envelopes |-> Envelopes,
      summaries |-> SummaryContents, errors |-> ExceptionClasses ]

InitThreads ==
    /\ pc = [t \in Threads |-> "idle"]
    /\ mop = [t \in Threads |-> "none"]
    /\ req = [t \in Threads |-> NoReq]
    /\ loc = [t \in Threads |-> NoLoc]
    /\ chatloc = [t \in Threads |-> NoChatLoc]
    /\ ast = [t \in Threads |-> EmptyState]
    /\ node = [t \in Threads |-> "-"]
    /\ trace = [t \in Threads |-> <<>>]
    /\ calls = [t \in Threads |-> NoCalls]
    /\ resp = [t \in Threads |-> NoResp]
    /\ started = 0
    /\ ops = {}
    /\ runs = {}

InitMemory ==
    /\ turn_store = [k \in Keys |-> 0]
    /\ turn_lists = <<>>
    /\ json_store = [k \in Keys |-> 0]
    /\ json_lists = <<>>

\* the server after start-up (main.py:33-38), the memories' capacities scaled
\* down to 1..MaxCap
Init ==
    /\ env = FullEnv
    /\ max_turns \in 1..MaxCap
    /\ max_items \in 1..MaxCap
    /\ InitMemory
    /\ InitThreads

MemoryStep(t) ==
    \/ TM_setdefault(t) \/ TM_append(t) \/ TM_check(t) \/ TM_slice(t) \/ TM_store(t)
    \/ JM_setdefault(t) \/ JM_append(t) \/ JM_check(t) \/ JM_slice(t) \/ JM_store(t)

AgentStep(t) ==
    \/ LlmRouter(t) \/ LlmRouterRaises(t)
    \/ SearchWeb(t) \/ SearchWebRaises(t)
    \/ PrepareSources(t) \/ PrepareSourcesRaises(t)
    \/ Summarize(t) \/ SummarizeRaises(t)
    \/ Finalize(t)

ChatStep(t) ==
    \/ StartChat(t) \/ ChatLoadRecent(t) \/ ChatInvoke(t)
    \/ ChatTry(t) \/ ChatExcept(t) \/ ChatSaveAssistant(t) \/ ChatReturn(t)

Next == \E t \in Threads : ChatStep(t) \/ AgentStep(t) \/ MemoryStep(t)

Spec == Init /\ [][Next]_vars

\* every thread that can take a step eventually takes one: the interpreter
\* schedules every runnable thread, and an external call returns or raises
FairSpec == Spec /\ \A t \in Threads : WF_vars(ChatStep(t) \/ AgentStep(t) \/ MemoryStep(t))

\* ---------------------------------------- the memories called on their own
MemEnv(workers) ==
    [ workers |-> workers, keys |-> Keys, messages |-> {<<"a">>, <<"b">>},
      router |-> {}, envelopes |-> {}, summaries |-> {}, errors |-> {"ConnectionError"} ]

NextMem == \E t \in Threads : MemSaveTurn(t) \/ MemAppend(t) \/ MemoryStep(t)

\* one caller, calls one after another, every capacity from 0
InitMem ==
    /\ env = MemEnv({"w1"})
    /\ max_turns \in 0..MaxCap
    /\ max_items \in 0..MaxCap
    /\ InitMemory
    /\ InitThreads

MemSpec == InitMem /\ [][NextMem]_vars

\* two worker threads calling the memories at the same time
InitMemConc ==
    /\ env = [MemEnv(Threads) EXCEPT !.keys = {<<"u1", "s1">>}, !.messages = {<<"a">>}]
    /\ max_turns \in 1..MaxCap
    /\ max_items \in 1..MaxCap
    /\ InitMemory
    /\ InitThreads

MemConcSpec == InitMemConc /\ [][NextMem]_vars

\* ------------------------------------------------ one invocation of the graph
PromptOf(m) == <<"User:", " ">> \o m

\* agent.invoke on any input state: each input key present or absent
InitAgent ==
    /\ env = [FullEnv EXCEPT !.router = RouterContents \cup
                 { <<"x", "CALL_TAVILY">>, <<"CALL_TAVILY", " ", "CALL_TAVILY">>,
                   <<"call_tavily">>, <<"\n", "CALL_TAVILY", " ", "now">>, <<" ">> },
                       !.envelopes = Envelopes \cup
                 { [results |-> <<ResultA, ResultBadImage, ResultA2>>, answer |-> None] }]
    /\ max_turns = 1 /\ max_items = 1
    /\ InitMemory
    /\ \E m \in {None, <<>>, <<" ">>, <<"q">>}, sq \in {None, <<"sq">>, <<" ">>}, p \in {None, <<"p">>} :
          /\ ast = [t \in Threads |->
                      IF t = "w1"
                      THEN [EmptyState EXCEPT !.latest_user_input = m,
                                              !.search_query = sq, !.llm_prompt = p]
                      ELSE EmptyState]
          /\ req = [t \in Threads |->
                      IF t = "w1" THEN [key |-> <<"u1", "s1">>, message |-> OrEmpty(m)]
                      ELSE NoReq]
    /\ pc = [t \in Threads |-> IF t = "w1" THEN "agent" ELSE "idle"]
    /\ node = [t \in Threads |-> IF t = "w1" THEN ENTRY_POINT ELSE "-"]
    /\ mop = [t \in Threads |-> "none"]
    /\ loc = [t \in Threads |-> NoLoc]
    /\ chatloc = [t \in Threads |-> NoChatLoc]
    /\ trace = [t \in Threads |-> <<>>]
    /\ calls = [t \in Threads |-> NoCalls]
    /\ resp = [t \in Threads |-> NoResp]
    /\ started = 1
    /\ ops = {}
    /\ runs = {}

NextAgent == AgentStep("w1")

\* the graph runner runs the next node until END or an exception
AgentSpec == InitAgent /\ [][NextAgent]_vars /\ WF_vars(NextAgent)

\* ------------------------------------- _normalize_sources on any input list
MaxResults == 3

ResultIntUrl == RawResult(NotAString, <<"I">>, <<"iota">>, None)

\* raw results: usable, duplicate up to blanks, blank or missing url, malformed
RawPool ==
    { ResultA, ResultA2, ResultB,
      RawResult(<<>>, <<"E">>, <<"eps">>, None),
      RawResult(<<" ", "\n">>, <<"W">>, <<"omega">>, None),
      RawResult(None, None, None, None),
      ResultIntContent, ResultIntUrl }

RECURSIVE SeqsUpTo(_, _)
SeqsUpTo(S, n) ==
    IF n = 0 THEN {<<>>}
    ELSE LET shorter == SeqsUpTo(S, n - 1)
         IN shorter \cup { Append(q, x) : q \in shorter, x \in S }

ShortInputs == SeqsUpTo(RawPool, MaxResults)

LongUrls ==
    << "https://1.example", "https://2.example", "https://3.example", "https://4.example",
       "https://5.example", "https://6.example", "https://7.example", "https://8.example",
       "https://9.example" >>

LongResult(i) == RawResult(<<LongUrls[i]>>, None, <<"text">>, None)

\* 5 to 9 results with different URLs, one more record put in at any place
LongInputs ==
    { [i \in 1..(n + 1) |-> IF i <= at THEN LongResult(i)
                            ELSE IF i = at + 1 THEN extra
                            ELSE LongResult(i - 1)] :
        n \in 5..Len(LongUrls), at \in 0..Len(LongUrls),
        extra \in {LongResult(1), RawResult(<<" ">>, None, None, None), LongResult(9)} }

\* raw results whose text is around or beyond the snippet width
SnippetResults ==
    { RawResult(<<"https://a.example">>, <<"A">>, c, None) :
        c \in { <<"<700 chars>", " ", "<499 chars>">>,
                <<"<700 chars>", " ", "<500 chars>">>,
                <<"<700 chars>", " ", "<499 chars>", " ", "x">>,
                <<"<700 chars>", " ", " ", "<700 chars>", "\n">>,
                <<"<1300 chars>">>,
                <<"x", " ", "<1300 chars>">>,
                <<"123", " ", "views", " ", "<700 chars>", " ", "<500 chars>">> } }
    \cup { [RawResult(<<"https://b.example">>, None, <<"short">>, None)
              EXCEPT !.raw_content = <<"<1300 chars>", " ", "y">>] }

SnippetInputs == { <<r>> : r \in SnippetResults } \cup { <<ResultB, r>> : r \in SnippetResults }

\* a call _normalize_sources(results, max_sources) about to be made
InitNormalize ==
    /\ \E results \in ShortInputs \cup LongInputs \cup SnippetInputs,
          max_sources \in (0..(MaxCap + 1)) \cup {MAX_SOURCES} :
          /\ Len(results) > MaxResults => max_sources = MAX_SOURCES
          /\ env = [max_sources |-> max_sources] @@ FullEnv
          /\ ast = [t \in Threads |->
                      IF t = "w1"
                      THEN [EmptyState EXCEPT !.search_results =
                                [results |-> results, answer |-> None]]
                      ELSE EmptyState]
    /\ max_turns = 1 /\ max_items = 1
    /\ InitMemory
    /\ req = [t \in Threads |-> NoReq]
    /\ pc = [t \in Threads |-> IF t = "w1" THEN "call" ELSE "idle"]
    /\ node = [t \in Threads |-> IF t = "w1" THEN "_normalize_sources" ELSE "-"]
    /\ mop = [t \in Threads |-> "none"]
    /\ loc = [t \in Threads |-> NoLoc]
    /\ chatloc = [t \in Threads |-> NoChatLoc]
    /\ trace = [t \in Threads |-> <<>>]
    /\ calls = [t \in Threads |-> NoCalls]
    /\ resp = [t \in Threads |-> NoResp]
    /\ started = 1
    /\ ops = {}
    /\ runs = {}

\* the call returns its list (agent.py:80)
NormalizeReturns(t) ==
    /\ pc[t] = "call" /\ node[t] = "_normalize_sources"
    /\ ~_normalize_sources_raises(ast[t].search_results.results, env.max_sources)
    /\ ast' = [ast EXCEPT ![t].used_sources =
                  _normalize_sources(ast[t].search_results.results, env.max_sources)]
    /\ pc' = [pc EXCEPT ![t] = "returned"]
    /\ node' = [node EXCEPT ![t] = "-"]
    /\ Ran(t, "_normalize_sources")
    /\ UNCHANGED <<runs, env, memVars, mop, req, loc, chatloc, calls, resp, started, ops>>

\* the call raises (agent.py:53, 58-63)
NormalizeRaises(t) ==
    /\ pc[t] = "call" /\ node[t] = "_normalize_sources"
    /\ _normalize_sources_raises(ast[t].search_results.results, env.max_sources)
    /\ Raise(t, "AttributeError")
    /\ Ran(t, "_normalize_sources")
    /\ UNCHANGED <<runs, env, memVars, mop, req, loc, ast, calls, resp, started, ops>>

NextNormalize == NormalizeReturns("w1") \/ NormalizeRaises("w1")

NormalizeSpec == InitNormalize /\ [][NextNormalize]_vars

\* --------------------------------------------- requests on two sessions
SessionsEnv ==
    [FullEnv EXCEPT !.keys = Keys,
                    !.messages = {<<"q">>},
                    !.router = {<<"Paris", " ", "is", " ", "it">>, <<"CALL_TAVILY">>},
                    !.envelopes = { [results |-> <<ResultA, ResultB, ResultA2>>,
                                     answer |-> <<"quick">>],
                                    [results |-> <<ResultIntContent>>, answer |-> None] },
                    !.summaries = {<<"summary", " ", "text", "\n">>},
                    !.errors = {"ConnectionError"}]

InitSessions ==
    /\ env = SessionsEnv
    /\ max_turns \in 1..MaxCap
    /\ max_items \in 1..MaxCap
    /\ InitMemory
    /\ InitThreads

SessionsSpec == InitSessions /\ [][Next]_vars

\* ------------------------------- a session that already holds a history
MaxStored == 20
MAX_TURNS == 40
MAX_ITEMS == 20

\* the numbers of requests the session has completed before
StoredCounts == {0, 1, 5, 6} \cup ((MaxStored - 2)..MaxStored)

\* which of the earlier answers came from a web search (0: none)
WebAnswerAt(j) == {0, 1, j - HISTORY_TAIL, j - HISTORY_TAIL + 1, j} \cap (0..j)

EarlierTag(i) == [w |-> "earlier", n |-> i]

\* the i-th stored turn: request (i + 1) \div 2 saved its user turn, then its
\* assistant turn
StoredTurn(i) ==
    IF i % 2 = 1 THEN Turn("user", <<"question", " ", ToString((i + 1) \div 2)>>)
    ELSE Turn("assistant", <<"answer", " ", ToString(i \div 2)>>)

\* the structured answer of the i-th earlier request, as finalize_chat built it
StoredAnswer(i, web) ==
    LET citations == IF web THEN <<Citation(Passage(ResultA, strip(ResultA.url)))>> ELSE <<>>
    IN [ query |-> <<"question", " ", ToString(i)>>,
         final_answer |-> <<"answer", " ", ToString(i)>>,
         citations |-> citations,
         meta |-> [engine |-> IF web THEN "llm+tavily" ELSE "llm",
                   num_sources |-> Len(citations)] ]

\* what the memories hold after j requests: the newest max_turns turns and the
\* newest max_items answers
StoredTurns(j) ==
    TailSlice([i \in 1..(2 * j) |-> [item |-> StoredTurn(i), op |-> EarlierTag(i)]],
              MAX_TURNS)
StoredAnswers(j, u) ==
    TailSlice([i \in 1..j |-> [item |-> StoredAnswer(i, i = u), op |-> EarlierTag(2 * j + i)]],
              MAX_ITEMS)

StoredOps(k, j, u) ==
    { [w |-> "earlier", n |-> i, mem |-> "turn", key |-> k, item |-> StoredTurn(i)]
        : i \in 1..(2 * j) }
    \cup { [w |-> "earlier", n |-> 2 * j + i, mem |-> "json", key |-> k,
            item |-> StoredAnswer(i, i = u)] : i \in 1..j }

\* the server (main.py:33-34) after j requests on one session, none in flight
\* the histories tried: j earlier requests, the u-th answered from the web
StoredCases == UNION { { <<j, u>> : u \in WebAnswerAt(j) } : j \in StoredCounts }

InitHistory(workers, cases) ==
    /\ env = [SessionsEnv EXCEPT !.keys = {<<"u1", "s1">>}, !.workers = workers]
    /\ max_turns = MAX_TURNS
    /\ max_items = MAX_ITEMS
    /\ \E c \in cases :
          LET k == <<"u1", "s1">>
              j == c[1]
              u == c[2]
          IN /\ turn_store = [x \in Keys |-> IF x = k /\ j > 0 THEN 1 ELSE 0]
             /\ turn_lists = IF j > 0 THEN <<StoredTurns(j)>> ELSE <<>>
             /\ json_store = [x \in Keys |-> IF x = k /\ j > 0 THEN 1 ELSE 0]
             /\ json_lists = IF j > 0 THEN <<StoredAnswers(j, u)>> ELSE <<>>
             /\ ops = StoredOps(k, j, u)
    /\ pc = [t \in Threads |-> "idle"]
    /\ mop = [t \in Threads |-> "none"]
    /\ req = [t \in Threads |-> NoReq]
    /\ loc = [t \in Threads |-> NoLoc]
    /\ chatloc = [t \in Threads |-> NoChatLoc]
    /\ ast = [t \in Threads |-> EmptyState]
    /\ node = [t \in Threads |-> "-"]
    /\ trace = [t \in Threads |-> <<>>]
    /\ calls = [t \in Threads |-> NoCalls]
    /\ resp = [t \in Threads |-> NoResp]
    /\ started = 0
    /\ runs = {}

\* requests handled one at a time
HistorySpec == InitHistory({"w1"}, StoredCases) /\ [][Next]_vars

\* requests handled at the same time by the threads of the server's pool
\* requests handled one at a time, or at the same time by two threads of the
\* server's pool
InitSharedHistory ==
    \/ InitHistory({"w1"}, StoredCases)
    \/ InitHistory({"w1", "w2"}, {<<0, 0>>, <<HISTORY_TAIL + 1, 0>>})

SharedHistorySpec == InitSharedHistory /\ [][Next]_vars

\* ------------------------------------ the graph invoked time and again
MaxRuns == 3

RunsEnv ==
    [FullEnv EXCEPT !.router = {<<"Paris", " ", "is", " ", "it">>, <<"CALL_TAVILY">>},
                    !.envelopes = { [results |-> <<ResultA, ResultB, ResultA2>>,
                                     answer |-> <<"quick">>],
                                    [results |-> <<ResultIntContent>>, answer |-> None] },
                    !.summaries = {<<"summary", " ", "text", "\n">>},
                    !.errors = {"ConnectionError"}]

\* states handed to agent.invoke: a first request, and one with a JSON history
RunInputs ==
    { state_in(<<"q">>, PromptOf(<<"q">>), <<>>),
      state_in(<<"q">>, PromptOf(<<"q">>), <<error_answer(<<"p">>, "ConnectionError")>>) }

\* what of an invocation that returned is kept for comparison
RunOf(t) ==
    [ input |-> [ llm_prompt |-> ast[t].llm_prompt,
                  search_query |-> ast[t].search_query,
                  latest_user_input |-> ast[t].latest_user_input,
                  last_structured_output |-> ast[t].last_structured_output ],
      router_out |-> calls[t].router_out,
      search_out |-> calls[t].search_out,
      summary_out |-> calls[t].summary_out,
      output |-> ast[t].structured_output ]

AtEnd(t) == pc[t] = "agent" /\ node[t] = "END"

InitRuns ==
    /\ env = RunsEnv
    /\ max_turns = 1 /\ max_items = 1
    /\ InitMemory
    /\ InitThreads

\* agent.invoke(given) on the compiled graph, after the invocation before it
\* (if any) returned or raised
Invoke(t) ==
    /\ t = "w1" /\ started < MaxRuns
    /\ pc[t] = "idle" \/ pc[t] = "except" \/ AtEnd(t)
    /\ \E given \in RunInputs : ast' = [ast EXCEPT ![t] = graph_input(ast[t], given)]
    /\ runs' = IF AtEnd(t) THEN runs \cup {RunOf(t)} ELSE runs
    /\ pc' = [pc EXCEPT ![t] = "agent"]
    /\ node' = [node EXCEPT ![t] = ENTRY_POINT]
    /\ trace' = [trace EXCEPT ![t] = <<>>]
    /\ calls' = [calls EXCEPT ![t] = NoCalls]
    /\ chatloc' = [chatloc EXCEPT ![t] = NoChatLoc]
    /\ started' = started + 1
    /\ UNCHANGED <<env, memVars, mop, req, loc, resp, ops>>

NextRuns == Invoke("w1") \/ AgentStep("w1")

RunsSpec == InitRuns /\ [][NextRuns]_vars

\* ------------------------------------------- finalize_chat on any input state
PassageValues ==
    { [url |-> <<"https://a.example">>, title |-> <<"A">>, snippet |-> <<"alpha">>,
       image_url |-> None],
      [url |-> <<"https://b.example">>, title |-> <<"B">>, snippet |-> <<>>,
       image_url |-> <<"https://img.example/1.png">>],
      [url |-> <<"not", " ", "a", " ", "url">>, title |-> <<"N">>, snippet |-> <<"nu">>,
       image_url |-> None],
      [url |-> None, title |-> None, snippet |-> None, image_url |-> None],
      [url |-> <<"https://b.example">>, title |-> <<"B2">>, snippet |-> <<"beta">>,
       image_url |-> <<"n/a">>] }

PassageLists ==
    {<<>>} \cup { <<a>> : a \in PassageValues }
           \cup { <<a, b>> : a \in PassageValues, b \in PassageValues }

InitFinalize ==
    /\ env = FullEnv
    /\ max_turns = 1 /\ max_items = 1
    /\ InitMemory
    /\ \E ws \in {None, <<>>, <<"web">>}, raw \in {None, <<>>, <<"direct">>},
          src \in PassageLists, m \in {None, <<"q">>} :
          ast = [t \in Threads |->
                    IF t = "w1"
                    THEN [EmptyState EXCEPT !.web_summary = ws, !.raw_llm_answer = raw,
                                            !.used_sources = src, !.latest_user_input = m]
                    ELSE EmptyState]
    /\ req = [t \in Threads |-> NoReq]
    /\ pc = [t \in Threads |-> IF t = "w1" THEN "agent" ELSE "idle"]
    /\ node = [t \in Threads |-> IF t = "w1" THEN "finalize" ELSE "-"]
    /\ mop = [t \in Threads |-> "none"]
    /\ loc = [t \in Threads |-> NoLoc]
    /\ chatloc = [t \in Threads |-> NoChatLoc]
    /\ trace = [t \in Threads |-> <<>>]
    /\ calls = [t \in Threads |-> NoCalls]
    /\ resp = [t \in Threads |-> NoResp]
    /\ started = 1
    /\ ops = {}
    /\ runs = {}

NextFinalize == Finalize("w1")

FinalizeSpec == InitFinalize /\ [][NextFinalize]_vars

\* ================================================================= claims
SearchStages == {"search_web", "prepare_sources", "summarize_with_llm"}

StagesOf(t) == {trace[t][i] : i \in 1..Len(trace[t])}

\* the router returned in thread t's invocation
Routed(t) == calls[t].router_out # None

\* C1: the stage after llm_router is search_web exactly when the router set
\* needs_web; with needs_web false it is finalize, none of search_web,
\* prepare_sources, summarize_with_llm runs and the search service is not called.
C1_RouterBranch ==
    \A t \in Threads :
        /\ (Routed(t) /\ pc[t] = "agent" /\ Len(trace[t]) = 1) =>
              /\ (node[t] = "search_web") <=> ast[t].needs_web
              /\ ~ast[t].needs_web => node[t] = "finalize"
        /\ Len(trace[t]) >= 2 =>
              /\ (trace[t][2] = "search_web") <=> ast[t].needs_web
              /\ ~ast[t].needs_web => trace[t][2] = "finalize"
        /\ ~ast[t].needs_web =>
              /\ StagesOf(t) \cap SearchStages = {}
              /\ calls[t].search = 0

C1_Witness ==
    \E t \in Threads :
        /\ Routed(t) /\ ~ast[t].needs_web
        /\ trace[t] = <<"llm_router", "finalize">>
        /\ node[t] = "END"

NoStageTwice(t) ==
    \A i, j \in 1..Len(trace[t]) : trace[t][i] = trace[t][j] => i = j

OnlySentinel(c) ==
    \E i \in 1..Len(c) :
        /\ c[i] = "CALL_TAVILY"
        /\ \A j \in 1..Len(c) : j # i => c[j] \in Whitespace

\* the text from its first to its last non-blank symbol
Trimmed(c) ==
    LET inked == {i \in 1..Len(c) : c[i] \notin Whitespace}
    IN IF inked = {} THEN <<>>
       ELSE SubSeq(c, CHOOSE i \in inked : \A j \in inked : i <= j,
                      CHOOSE i \in inked : \A j \in inked : j <= i)

\* C3: needs_web is true exactly when the model's output is the sentinel with
\* nothing but blanks around it; any other output is kept as raw_llm_answer.
C3_SentinelExact ==
    \A t \in Threads :
        Routed(t) =>
            /\ ast[t].needs_web <=> OnlySentinel(calls[t].router_out)
            /\ ~ast[t].needs_web => ast[t].raw_llm_answer = Trimmed(calls[t].router_out)

C3_Witness ==
    \E t \in Threads :
        /\ Routed(t)
        /\ ~ast[t].needs_web
        /\ \E i \in 1..Len(calls[t].router_out) : calls[t].router_out[i] = "CALL_TAVILY"

\* ------------------------------------------------------- memories: claims
Quiescent == \A t \in Threads : mop[t] = "none"

\* the appends begun on one key of one memory
OpsOn(mem, k) == {o \in ops : o.mem = mem /\ o.key = k}

\* one caller issued x before y
IssuedBefore(x, y) == x.w = y.w /\ x.n < y.n

Min(a, b) == IF a < b THEN a ELSE b

\* whether the stored entries are what the appends U leave when applied one at
\* a time, in an order that keeps each caller's own order, with the oldest
\* evicted beyond cap: the newest Min(|U|, cap) of such an order
SerialOutcome(entries, U, cap) ==
    LET tags == OpsOf(entries)
    IN /\ Len(tags) = Min(Cardinality(U), cap)
       /\ \A i \in 1..Len(tags) :
             \E o \in U : o.w = tags[i].w /\ o.n = tags[i].n /\ o.item = entries[i].item
       /\ \A i, j \in 1..Len(tags) : tags[i] = tags[j] => i = j
       /\ \A i \in 1..Len(tags) : \A o \in U :
             IssuedBefore(tags[i], o) => \E j \in 1..Len(tags) : tags[j].w = o.w /\ tags[j].n = o.n
       /\ \A i, j \in 1..Len(tags) : i < j => ~IssuedBefore(tags[j], tags[i])

\* C4: once the concurrent save_turn / append calls on a key have returned,
\* the stored sequence is the result of applying them one at a time in some
\* order and evicting the oldest: no appended item is lost.
C4_Serialized ==
    Quiescent =>
        \A k \in Keys :
            /\ SerialOutcome(TurnsOf(k), OpsOn("turn", k), max_turns)
            /\ SerialOutcome(AnswersOf(k), OpsOn("json", k), max_items)

\* the items appended to one key of one memory by the single caller, in call order
RECURSIVE LogUpTo(_, _, _)
LogUpTo(mem, k, n) ==
    IF n = 0 THEN <<>>
    ELSE LET here == {o \in OpsOn(mem, k) : o.n = n}
         IN IF here = {} THEN LogUpTo(mem, k, n - 1)
            ELSE Append(LogUpTo(mem, k, n - 1), (CHOOSE o \in here : TRUE).item)

LogOf(mem, k) == LogUpTo(mem, k, Cardinality(ops))

\* the newest n elements of a sequence
Newest(s, n) == IF Len(s) <= n THEN s ELSE SubSeq(s, Len(s) - n + 1, Len(s))

\* C5: after any sequence of save_turn calls the memory holds at most
\* max_turns turns of a key, the most recently appended ones in arrival order.
C5_TurnsCapped ==
    Quiescent =>
        \A k \in Keys :
            /\ Len(TurnsOf(k)) <= max_turns
            /\ Items(TurnsOf(k)) = Newest(LogOf("turn", k), max_turns)

\* C6: after any sequence of JsonMemory.append calls the history of a key
\* holds at most max_items answers, the most recently appended ones in order.
C6_AnswersCapped ==
    Quiescent =>
        \A k \in Keys :
            /\ Len(AnswersOf(k)) <= max_items
            /\ Items(AnswersOf(k)) = Newest(LogOf("json", k), max_items)

\* ------------------------------------------------------ finalize: claims
Finalized(t) == trace[t] # <<>> /\ trace[t][Len(trace[t])] = "finalize"

Out(t) == ast[t].structured_output

\* C7: with a search-grounded summary and a direct answer both in the state the
\* summary is the final answer and the engine is "llm+tavily"; with the direct
\* answer alone it is the final answer and the engine is "llm_only".
C7_Precedence ==
    \A t \in Threads :
        Finalized(t) =>
            /\ (Truthy(ast[t].web_summary) /\ Truthy(ast[t].raw_llm_answer)) =>
                  /\ Out(t).final_answer = ast[t].web_summary
                  /\ Out(t).meta.engine = "llm+tavily"
            /\ (~Truthy(ast[t].web_summary) /\ Truthy(ast[t].raw_llm_answer)) =>
                  /\ Out(t).final_answer = ast[t].raw_llm_answer
                  /\ Out(t).meta.engine = "llm_only"

C7_Witness ==
    \E t \in Threads :
        /\ Finalized(t)
        /\ Truthy(ast[t].web_summary) /\ Truthy(ast[t].raw_llm_answer)
        /\ ast[t].web_summary # ast[t].raw_llm_answer

\* C8: with neither a summary nor a direct answer the final answer is the
\* fixed fallback sentence and the citations are empty.
C8_Fallback ==
    \A t \in Threads :
        (Finalized(t) /\ ~Truthy(ast[t].web_summary) /\ ~Truthy(ast[t].raw_llm_answer)) =>
            /\ Out(t).final_answer =
                  <<"I couldn't find detailed information for that request.">>
            /\ Out(t).citations = <<>>

\* the URLs of the given passages, as the citations carry them
UrlsOf(sources) == [i \in 1..Len(sources) |-> strip(sources[i].url)]

CitedUrls(t) == [i \in 1..Len(Out(t).citations) |-> Out(t).citations[i].url.str]

UrlOk(s) == IsValidUrl(s.url)
UrlAndImageOk(s) == IsValidUrl(s.url) /\ (Truthy(s.image_url) => IsValidUrl(s.image_url))

\* C9 (amended): the citations are, in passage order, the passages whose url is
\* a valid URL and whose image_url is empty or a valid URL; every other passage
\* is left out; num_sources is the number of citations included.
C9_Citations ==
    \A t \in Threads :
        Finalized(t) =>
            /\ CitedUrls(t) = UrlsOf(SelectSeq(ast[t].used_sources, UrlAndImageOk))
            /\ Out(t).meta.num_sources = Len(Out(t).citations)

C9_Witness ==
    \E t \in Threads :
        /\ Finalized(t)
        /\ Len(ast[t].used_sources) = 2
        /\ ~IsValidUrl(ast[t].used_sources[1].url)
        /\ UrlAndImageOk(ast[t].used_sources[2])
        /\ Out(t).meta.num_sources = 1

\* C9 as claimed: every passage with a valid url is cited, the others are not.
C9_EveryValidUrlCited ==
    \A t \in Threads :
        Finalized(t) =>
            /\ CitedUrls(t) = UrlsOf(SelectSeq(ast[t].used_sources, UrlOk))
            /\ Out(t).meta.num_sources = Len(Out(t).citations)

\* ---------------------------------------------------------- chat: claims
Failed(t) == chatloc[t].exc # ""

\* C10: a request whose processing failed is answered with a structured answer
\* whose engine is "error", whose error is set and whose citations are empty;
\* no exception reaches the HTTP caller.
C10_Degraded ==
    \A t \in Threads :
        /\ resp[t].kind # "exception"
        /\ (Failed(t) /\ resp[t].kind = "answer") =>
              /\ resp[t].body.meta.engine = "error"
              /\ resp[t].body.meta.error = <<chatloc[t].exc>>
              /\ resp[t].body.citations = <<>>
              /\ resp[t].body.query = req[t].message
              /\ resp[t].body.final_answer # <<>>
        /\ (Failed(t) /\ pc[t] \notin {"except", "agent"}) =>
              chatloc[t].structured.meta.engine = "error"

C10_Witness ==
    \E t \in Threads :
        /\ Failed(t) /\ resp[t].kind = "answer"
        /\ chatloc[t].exc = "AttributeError"
        /\ trace[t] = <<"llm_router", "search_web", "prepare_sources", "summarize_with_llm">>

\* ------------------------------------------------ _normalize_sources: claims
Returned(t) == pc[t] = "returned"

InputOf(t) == ast[t].search_results.results

\* the url of a raw result as the loop sees it: a str, trimmed, "" when missing
TrimmedUrl(r) == IF IsStr(r.url) THEN strip(OrEmpty(r.url)) ELSE r.url

\* the usable URLs of the input, each once, in the order of their first record
RECURSIVE FirstOccurrences(_, _)
FirstOccurrences(results, i) ==
    IF i = 0 THEN <<>>
    ELSE LET before == FirstOccurrences(results, i - 1)
             u == TrimmedUrl(results[i])
         IN IF u = <<>> \/ (\E j \in 1..(i - 1) : TrimmedUrl(results[j]) = u)
            THEN before ELSE Append(before, u)

UsableUrls(results) == FirstOccurrences(results, Len(results))

FirstIndex(results, u) ==
    CHOOSE i \in 1..Len(results) :
        /\ TrimmedUrl(results[i]) = u
        /\ \A j \in 1..(i - 1) : TrimmedUrl(results[j]) # u

OutUrls(t) == [i \in 1..Len(ast[t].used_sources) |-> ast[t].used_sources[i].url]

Prefix(q, n) == IF Len(q) <= n THEN q ELSE SubSeq(q, 1, n)

\* C13: no two passages returned by _normalize_sources share a url, no passage
\* has an empty url, and the passage of a url is built from the first raw
\* result of the input whose trimmed url it is.
C13_Dedup ==
    \A t \in Threads :
        Returned(t) =>
            LET out == ast[t].used_sources
            IN /\ \A i, j \in 1..Len(out) : out[i].url = out[j].url => i = j
               /\ \A i \in 1..Len(out) :
                     /\ out[i].url # <<>> /\ out[i].url = strip(out[i].url)
                     /\ \E k \in 1..Len(InputOf(t)) : TrimmedUrl(InputOf(t)[k]) = out[i].url
                     /\ out[i] = Passage(InputOf(t)[FirstIndex(InputOf(t), out[i].url)],
                                         out[i].url)

C13_Witness ==
    \E t \in Threads :
        /\ Returned(t)
        /\ InputOf(t) = <<RawResult(<<" ", "\n">>, <<"W">>, <<"omega">>, None), ResultA, ResultA2>>
        /\ Len(ast[t].used_sources) = 1
        /\ ast[t].used_sources[1].title = <<"A">>

\* C14: for every value of the cap, 0 included, _normalize_sources returns at
\* most max_sources passages.
C14_AtMostCap ==
    \A t \in Threads : Returned(t) => Len(ast[t].used_sources) <= env.max_sources

\* C15: with the cap 6, an input with at least 7 usable raw results (7
\* different non-empty trimmed urls) yields exactly 6 passages.
C15_ExactlyCap ==
    \A t \in Threads :
        (/\ Returned(t)
         /\ env.max_sources = MAX_SOURCES
         /\ Len(UsableUrls(InputOf(t))) >= MAX_SOURCES + 1)
            => Len(ast[t].used_sources) = MAX_SOURCES

C15_Witness ==
    \E t \in Threads :
        /\ Returned(t)
        /\ env.max_sources = MAX_SOURCES
        /\ Len(UsableUrls(InputOf(t))) = MAX_SOURCES + 2
        /\ Len(InputOf(t)) > Len(UsableUrls(InputOf(t)))
        /\ Len(ast[t].used_sources) = MAX_SOURCES

\* C16: the urls returned are the first max_sources of the input's usable urls
\* (non-empty, first occurrence), in input order.
C16_OrderedPrefix ==
    \A t \in Threads :
        Returned(t) => OutUrls(t) = Prefix(UsableUrls(InputOf(t)), env.max_sources)

\* C20: _normalize_sources raises for no input, however malformed a record.
C20_NeverRaises ==
    \A t \in Threads : node[t] = "-" /\ trace[t] = <<"_normalize_sources">> => Returned(t)

\* ------------------------------------------------------ search path: claims
SearchRan(t) == \E i \in 1..Len(trace[t]) : trace[t][i] = "search_web"

\* the query of the state: search_query, else latest_user_input, blanks collapsed
QueryOf(t) ==
    strip(collapse_ws(IF Truthy(ast[t].search_query) THEN ast[t].search_query
                      ELSE OrEmpty(ast[t].latest_user_input)))

\* C17: search_web with an empty query (after trimming) does not call the
\* search and stores the empty envelope; with a non-empty query it calls the
\* search exactly once with max_results 6, include_answer and
\* include_raw_content true, and stores the envelope returned unchanged.
C17_SearchPrecondition ==
    \A t \in Threads :
        /\ ~SearchRan(t) => calls[t].search = 0
        /\ SearchRan(t) =>
              IF QueryOf(t) = <<>>
              THEN /\ calls[t].search = 0
                   /\ calls[t].search_args = NoSearchArgs
                   /\ ast[t].search_results = [results |-> <<>>, answer |-> <<>>]
              ELSE /\ calls[t].search = 1
                   /\ calls[t].search_args =
                         [ query |-> QueryOf(t), max_results |-> 6,
                           include_answer |-> TRUE, include_raw_content |-> TRUE ]
                   /\ \/ Failed(t) /\ trace[t][Len(trace[t])] = "search_web"
                      \/ ast[t].search_results = calls[t].search_out

C17_Witness ==
    \E t \in Threads :
        /\ SearchRan(t) /\ Finalized(t)
        /\ ast[t].search_query = <<" ">> /\ ast[t].latest_user_input = <<"q">>
        /\ calls[t].search = 0
        /\ ast[t].search_results = EmptyEnvelope

\* C11: on the search path with no usable passage the final answer is the
\* fixed fallback sentence and the citations are empty.
C11_NoResultsFallback ==
    \A t \in Threads :
        (Finalized(t) /\ SearchRan(t) /\ ast[t].used_sources = <<>>) =>
            /\ Out(t).final_answer =
                  <<"I couldn't find detailed information for that request.">>
            /\ Out(t).citations = <<>>

\* C12: every structured answer finalize_chat produces, stored in the answer
\* history or returned, has only plain strings as citation url and image_url,
\* so that the stored history always serializes.
C12_JsonSafe ==
    /\ \A t \in Threads :
          /\ Finalized(t) => JsonSafe(Out(t))
          /\ resp[t].kind = "answer" => JsonSafe(resp[t].body)
    /\ \A k \in Keys : \A i \in 1..Len(AnswersOf(k)) : JsonSafe(AnswersOf(k)[i].item)

\* the text llm.chat handed to the router
RouterText(t) == strip(calls[t].router_out)

DirectAnswer(t) ==
    /\ resp[t].body.final_answer = RouterText(t)
    /\ resp[t].body.citations = <<>>
    /\ resp[t].body.meta.engine = "llm_only"

\* C18 (amended): when the router's output is a non-empty text T other than
\* the sentinel, the structured answer returned has final_answer = T, no
\* citations and engine "llm_only".
C18_DirectAnswer ==
    \A t \in Threads :
        (/\ resp[t].kind = "answer" /\ ~Failed(t) /\ Routed(t)
         /\ RouterText(t) # SENTINEL /\ RouterText(t) # <<>>)
            => DirectAnswer(t)

C18_Witness ==
    \E t \in Threads :
        /\ resp[t].kind = "answer" /\ ~Failed(t)
        /\ calls[t].router_out = <<"Paris", " ", "is", " ", "it">>
        /\ DirectAnswer(t)

\* C18 as claimed: for any non-sentinel output T of the router.
C18_AnyNonSentinel ==
    \A t \in Threads :
        (/\ resp[t].kind = "answer" /\ ~Failed(t) /\ Routed(t)
         /\ RouterText(t) # SENTINEL)
            => DirectAnswer(t)

\* three results: two different valid urls and a duplicate of one of them
TwoValidOneDuplicate(rs) ==
    /\ Len(rs) = 3
    /\ \A i \in 1..3 : IsStr(rs[i].url) /\ IsValidUrl(rs[i].url)
    /\ Cardinality({ strip(rs[i].url) : i \in 1..3 }) = 2

\* the picture of a raw result, if any, is a valid URL
PictureOk(r) ==
    LET picture == IF Truthy(r.thumbnail) THEN r.thumbnail ELSE r.image_url
    IN Truthy(picture) => IsValidUrl(picture)

SearchScenario(t) ==
    /\ Finalized(t) /\ ast[t].needs_web /\ calls[t].search = 1
    /\ TwoValidOneDuplicate(ast[t].search_results.results)
    /\ Truthy(ast[t].web_summary)

SearchOutcome(t) ==
    /\ Len(ast[t].used_sources) = 2
    /\ Out(t).meta.num_sources = 2
    /\ Out(t).meta.engine = "llm+tavily"

C22_SnippetBound ==
    \A t \in Threads :
        Returned(t) =>
            \A i \in 1..Len(ast[t].used_sources) :
                TextLen(ast[t].used_sources[i].snippet) <= 1200

C22_Witness ==
    \E t \in Threads :
        /\ Returned(t)
        /\ Len(InputOf(t)) = 1
        /\ InputOf(t)[1].content = <<"<700 chars>", " ", "<500 chars>">>
        /\ Len(ast[t].used_sources) = 1
        /\ ast[t].used_sources[1].snippet = <<"<700 chars>", "...">>

\* ------------------------------------------------------ invocations: claims
SameRun(r1, r2) ==
    /\ r1.input = r2.input
    /\ r1.router_out = r2.router_out
    /\ r1.search_out = r2.search_out
    /\ r1.summary_out = r2.summary_out

OpsBy(t) == {o \in ops : o.w = t}
OpAt(t, n) == CHOOSE o \in OpsBy(t) : o.n = n

\* the appends of one handled request, n the serial of its last one
RequestShape(t, n) ==
    LET user == OpAt(t, n - 2)
        answer == OpAt(t, n - 1)
        assistant == OpAt(t, n)
    IN /\ user.mem = "turn" /\ user.item.role = "user"
       /\ answer.mem = "json" /\ answer.key = user.key
       /\ answer.item.query = user.item.content
       /\ assistant.mem = "turn" /\ assistant.key = user.key
       /\ assistant.item = Turn("assistant", answer.item.final_answer)

Alternating(turns) ==
    \A i \in 1..(Len(turns) - 1) : turns[i].role # turns[i + 1].role

\* C23: every handled request, failed or not, appends to the memories of its
\* key exactly a user turn with its message (before the agent is invoked), one
\* structured answer, and an assistant turn with that answer's final_answer;
\* for requests one after another the stored turns alternate user, assistant.
C23_RequestEffect ==
    \A t \in Threads :
        LET n == Cardinality(OpsBy(t))
        IN /\ \A m \in 1..n : m % 3 = 0 => RequestShape(t, m)
           /\ pc[t] = "idle" => n % 3 = 0
           /\ pc[t] \in {"load", "history", "agent", "except"} =>
                 /\ n % 3 = 1
                 /\ OpAt(t, n).mem = "turn" /\ OpAt(t, n).key = req[t].key
                 /\ OpAt(t, n).item = Turn("user", req[t].message)
                 /\ TurnsOf(req[t].key) # <<>>
                 /\ TurnsOf(req[t].key)[Len(TurnsOf(req[t].key))].item =
                       Turn("user", req[t].message)
           /\ pc[t] = "return" =>
                 /\ n % 3 = 0
                 /\ OpAt(t, n - 1).item = chatloc[t].structured
                 /\ OpAt(t, n - 1).key = req[t].key
           /\ \A k \in Keys : Alternating(Items(TurnsOf(k)))
           /\ (pc[t] = "idle" /\ n > 0) =>
                 \A k \in Keys : TurnsOf(k) # <<>> =>
                     TurnsOf(k)[Len(TurnsOf(k))].item.role = "assistant"

\* a failed request and a successful one have both been handled
C23_Witness ==
    \E t \in Threads :
        /\ pc[t] = "idle" /\ Cardinality(OpsBy(t)) = 6
        /\ OpAt(t, 2).item.meta.engine = "error"
        /\ OpAt(t, 5).item.meta.engine = "llm+tavily"
        /\ \E k \in Keys : Len(TurnsOf(k)) = 2

\* every stored entry of key k was appended by a call made for key k
OwnEntries(entries, mem, k) ==
    \A i \in 1..Len(entries) :
        \E o \in OpsOn(mem, k) :
            o.w = entries[i].op.w /\ o.n = entries[i].op.n /\ o.item = entries[i].item

\* the prompt context and the JSON history of a request come from its own key
OwnContext(t) ==
    /\ pc[t] \in {"history", "agent", "except"} =>
          /\ chatloc[t].recent = TailSlice(Items(TurnsOf(req[t].key)), MAX_TURNS_CONTEXT)
          /\ \A i \in 1..Len(chatloc[t].recent) :
                \E o \in OpsOn("turn", req[t].key) : o.item = chatloc[t].recent[i]
    /\ pc[t] \in {"agent", "except"} =>
          \A i \in 1..Len(chatloc[t].json_history) :
             \E o \in OpsOn("json", req[t].key) : o.item = chatloc[t].json_history[i]

\* a step changes the stored sequence of key k only inside a memory method
\* called for k, and never inside load_recent or get_history
FrameOf(k) ==
    (TurnsOf(k)' # TurnsOf(k) \/ AnswersOf(k)' # AnswersOf(k)) =>
        \E t \in Threads :
            /\ mop[t] # "none" /\ loc[t].key = k
            /\ pc[t] \in {"save_user", "append_json", "save_assistant"} => req[t].key = k
            /\ pc[t] \notin {"load", "history"}

\* C24: save_turn and append for one key leave the sequences of every other key
\* unchanged, load_recent and get_history change none; the prompt context and
\* JSON history of a request hold only turns and answers of its own session.
C24_Isolation ==
    /\ [](\A k \in Keys : /\ OwnEntries(TurnsOf(k), "turn", k)
                          /\ OwnEntries(AnswersOf(k), "json", k))
    /\ [](\A t \in Threads : OwnContext(t))
    /\ [][\A k \in Keys : FrameOf(k)]_vars

\* a request on one session has its context loaded while the other session
\* holds turns and an answer
C24_Witness ==
    \E t \in Threads :
        /\ pc[t] = "agent" /\ req[t].key = <<"u1", "s2">>
        /\ Len(chatloc[t].recent) = 1
        /\ chatloc[t].json_history = <<>>
        /\ Len(TurnsOf(<<"u1", "s1">>)) = 2
        /\ Len(AnswersOf(<<"u1", "s1">>)) = 1

\* the lines of the prompt as the claim describes them: the last n stored
\* turns, oldest first, then the latest message
ContextLines(stored, n, message) ==
    [i \in 1..(n + 1) |->
        IF i <= n THEN TemplateLine(stored[Len(stored) - n + i])
        ELSE <<"User:", " ">> \o message]

\* C25: for requests handled one at a time the prompt context is at most 12
\* stored turns in arrival order followed by the line "User: <latest message>";
\* the last stored turn is the latest user message, so the message makes the last
\* two lines of the context.
C25_PromptContext ==
    \A t \in Threads :
        pc[t] \in {"history", "agent", "except"} =>
            LET stored == Items(TurnsOf(req[t].key))
                n == Min(Len(stored), MAX_TURNS_CONTEXT)
                lines == ContextLines(stored, n, req[t].message)
            IN /\ n >= 1 /\ n <= 12
               /\ chatloc[t].chat_template = JoinLines(lines)
               /\ stored[Len(stored)] = Turn("user", req[t].message)
               /\ lines[n] = <<"User:", " ">> \o req[t].message
               /\ lines[n + 1] = lines[n]

\* a request whose session holds more than 12 turns has its context built
C25_Witness ==
    \E t \in Threads :
        /\ pc[t] = "agent"
        /\ Len(TurnsOf(req[t].key)) > MAX_TURNS_CONTEXT
        /\ Len(chatloc[t].recent) = MAX_TURNS_CONTEXT
        /\ chatloc[t].recent[1] # TurnsOf(req[t].key)[1].item

\* the step at which chat reads the JSON history (main.py:88)
ReadsHistory(t) == pc[t] = "history" /\ pc'[t] # "history"

\* the newest entries of a stored list, at most n of them, oldest first
NewestEntries(entries, n) ==
    [i \in 1..Min(Len(entries), n) |-> entries[Len(entries) - Min(Len(entries), n) + i]]

\* the append with which the request thread u is handling began
LastUserOp(u) ==
    CHOOSE o \in OpsBy(u) :
        /\ o.mem = "turn" /\ o.item.role = "user"
        /\ \A x \in OpsBy(u) : (x.mem = "turn" /\ x.item.role = "user") => x.n <= o.n

\* the entry was appended by a request that is still being handled
InFlight(tag) ==
    \E u \in Threads :
        /\ pc[u] # "idle" /\ tag.w = u /\ tag.n > LastUserOp(u).n

\* C26 (amended): the JSON history of a request is built only from the answers
\* appended for its key before the request reads the history, limited to the 10
\* most recent in append order; it is empty exactly when no answer is stored or
\* one of those 10 cannot be serialized; the request's own answer is not in it.
C26_HistoryAtRead ==
    [][\A t \in Threads :
          ReadsHistory(t) =>
             LET entries == AnswersOf(req[t].key)
                 newest == NewestEntries(entries, 10)
                 text == chatloc'[t].json_history
             IN /\ text \in {<<>>, Items(newest)}
                /\ text = <<>> <=> \/ entries = <<>>
                                   \/ \E i \in 1..Len(newest) : ~JsonSafe(newest[i].item)
                /\ \A i \in 1..Len(newest) :
                      /\ \E o \in OpsOn("json", req[t].key) :
                            /\ o.w = newest[i].op.w /\ o.n = newest[i].op.n
                            /\ o.item = newest[i].item
                      /\ newest[i].op.w = t => newest[i].op.n < LastUserOp(t).n]_vars

\* a request has read a history of more than 10 answers and got 10 of them
C26_Witness ==
    \E t \in Threads :
        /\ pc[t] = "agent"
        /\ Len(AnswersOf(req[t].key)) > HISTORY_TAIL
        /\ Len(chatloc[t].json_history) = HISTORY_TAIL
        /\ chatloc[t].json_history[1] # AnswersOf(req[t].key)[1].item

\* C26 as stated: every answer in the history a request reads was appended by a
\* request that had completed when the reading request started; an answer of a
\* request that is still being handled when the history is read had not.
C26_OnlyCompletedRequests ==
    \A t \in Threads :
        pc[t] = "history" =>
            LET newest == NewestEntries(AnswersOf(req[t].key), 10)
            IN \A i \in 1..Len(newest) : ~InFlight(newest[i].op)

====
